---- MODULE Spec2Model ----
(***************************************************************************)
(* Model of app.py, the Streamlit academic dashboard: the SQLite store     *)
(* (users, grades, attendance), the login gate, the six menu pages and the *)
(* pandas aggregation they run.                                            *)
(*                                                                         *)
(* One action is one Streamlit script run (one user interaction).  A row   *)
(* of a table keeps the columns some computation of app.py reads:          *)
(* grades(semester, course_code, sks, grade) and attendance(course_code,   *)
(* percent); id, course_name, created_at and updated_at are written and    *)
(* displayed but never computed with, and are left out.  A table is the    *)
(* sequence of its rows in rowid order.                                    *)
(*                                                                         *)
(* A float64 is a record [k, n, d]: k = "num" is the rational n/d in       *)
(* lowest terms with d > 0, k = "nan" is NaN, k = "inf" is +-infinity with *)
(* the sign in n.  A nullable cell is <<>> (NULL / NaN) or <<v>>.          *)
(***************************************************************************)
EXTENDS Integers, Sequences, FiniteSets

VARIABLES users, session_user, menu, screen, grades, attendance

vars == <<users, session_user, menu, screen, grades, attendance>>

store == <<users, grades, attendance>>

(***************************************************************************)
(* Bounds and input sets                                                   *)
(***************************************************************************)
\* most rows the grades table holds in the model
MaxGradeRows == 3

\* the lines a grade CSV is made of: semester, course_code, sks, grade
GradeCsvLines ==
    { [semester |-> 1, course_code |-> "A", sks |-> 3, grade |-> 80],
      [semester |-> 1, course_code |-> "B", sks |-> 2, grade |-> 90],
      [semester |-> 2, course_code |-> "A", sks |-> 4, grade |-> 75],
      [semester |-> 3, course_code |-> "A", sks |-> 0, grade |-> 70],
      [semester |-> 3, course_code |-> "B", sks |-> 1, grade |-> 85] }

\* the lines of a grade CSV whose header has no grade column
NoGradeCsvLines ==
    { [semester |-> 2, course_code |-> "B", sks |-> 2] }

SeqUpTo2(S) == {<<>>} \cup {<<a>> : a \in S} \cup {<<a, b>> : a \in S, b \in S}

GradeColumns == {"semester", "course_code", "course_name", "sks", "grade"}

\* an uploaded grade CSV: its header (the five documented columns, those
\* without grade, or those without grade and with a column the grades table
\* does not have) and its lines
GradeFiles ==
    [header : {GradeColumns}, lines : SeqUpTo2(GradeCsvLines)]
      \cup [header : {GradeColumns \ {"grade"}, (GradeColumns \ {"grade"}) \cup {"nilai"}},
            lines : {<<l>> : l \in NoGradeCsvLines}]

\* an uploaded attendance CSV: a header alone, one line, two and three lines
\* out of course_code order
AttendanceFiles ==
    { <<>>,
      <<[course_code |-> "A", percent |-> 100]>>,
      <<[course_code |-> "C", percent |-> 85]>>,
      <<[course_code |-> "B", percent |-> 80], [course_code |-> "A", percent |-> 100]>>,
      <<[course_code |-> "C", percent |-> 85], [course_code |-> "A", percent |-> 100],
        [course_code |-> "B", percent |-> 80]>> }

Usernames == {"demo", "guest"}
Passwords == {"demo123", "guess"}

Menus == {"Dashboard", "Input Data", "Nilai & IPK", "Kehadiran",
          "Notifikasi & Export", "Admin"}

NoUser == [id |-> 0, full_name |-> ""]

(***************************************************************************)
(* float64 arithmetic as pandas / numpy do it                              *)
(***************************************************************************)
Abs(x) == IF x < 0 THEN -x ELSE x

Sign(x) == IF x < 0 THEN -1 ELSE IF x > 0 THEN 1 ELSE 0

RECURSIVE Gcd(_, _)
Gcd(a, b) == IF b = 0 THEN a ELSE Gcd(b, a % b)

NaN == [k |-> "nan", n |-> 0, d |-> 1]

Inf(s) == [k |-> "inf", n |-> s, d |-> 1]

\* the rational n/d, d # 0, in lowest terms
Num(n, d) ==
    LET g == Gcd(Abs(n), Abs(d))
        s == Sign(d)
    IN  [k |-> "num", n |-> (s * n) \div g, d |-> Abs(d) \div g]

IsNum(x) == x.k = "num"

FAdd(x, y) ==
    IF x.k = "nan" \/ y.k = "nan" THEN NaN
    ELSE IF x.k = "inf" /\ y.k = "inf" THEN (IF x.n = y.n THEN x ELSE NaN)
    ELSE IF x.k = "inf" THEN x
    ELSE IF y.k = "inf" THEN y
    ELSE Num(x.n * y.d + y.n * x.d, x.d * y.d)

FNeg(x) == IF x.k = "nan" THEN NaN ELSE [x EXCEPT !.n = -x.n]

FSub(x, y) == FAdd(x, FNeg(y))

FMul(x, y) ==
    IF x.k = "nan" \/ y.k = "nan" THEN NaN
    ELSE IF x.k = "inf" \/ y.k = "inf"
         THEN (IF x.n = 0 \/ y.n = 0 THEN NaN ELSE Inf(Sign(x.n) * Sign(y.n)))
    ELSE Num(x.n * y.n, x.d * y.d)

\* numpy true division: x/0 is +-inf, 0/0 is NaN, and nothing is raised
FDiv(x, y) ==
    IF x.k = "nan" \/ y.k = "nan" THEN NaN
    ELSE IF x.k = "inf" THEN (IF y.k = "inf" THEN NaN
                              ELSE Inf(x.n * (IF y.n < 0 THEN -1 ELSE 1)))
    ELSE IF y.k = "inf" THEN Num(0, 1)
    ELSE IF y.n = 0 THEN (IF x.n = 0 THEN NaN ELSE Inf(Sign(x.n)))
    ELSE Num(x.n * y.d, x.d * y.n)

\* Series.sum(): NaN entries are skipped, the empty sum is 0
RECURSIVE SumSkipNa(_)
SumSkipNa(s) ==
    IF s = <<>> THEN Num(0, 1)
    ELSE IF Head(s).k = "nan" THEN SumSkipNa(Tail(s))
    ELSE FAdd(Head(s), SumSkipNa(Tail(s)))

\* round(x, 2): the multiples of 0.01 nearest to x.  A value exactly half way
\* between two of them goes to either: which one depends on the binary
\* representation of the float64 operands.
Round2(x) ==
    IF ~IsNum(x) THEN {x}
    ELSE LET h == 100 * x.n
             q == h \div x.d
             r == h % x.d
         IN  IF 2 * r < x.d THEN {Num(q, 100)}
             ELSE IF 2 * r > x.d THEN {Num(q + 1, 100)}
             ELSE {Num(q, 100), Num(q + 1, 100)}

(***************************************************************************)
(* The store                                                               *)
(***************************************************************************)
\* init_db: the tables exist, users holds the demo account
DemoUsers ==
    { [id |-> 1, username |-> "demo", password |-> "demo123",
       full_name |-> "Mahasiswa Demo"] }

\* the columns CREATE TABLE grades declares
GradesTableColumns ==
    {"id", "semester", "course_code", "course_name", "sks", "grade", "created_at"}

\* a WHERE clause that tests the username alone
AuthenticateByName(username, password) ==
    LET rows == {u \in users : u.username = username}
    IN  IF rows # {}
        THEN LET row == CHOOSE u \in rows : \A v \in rows : u.id <= v.id
             IN  [id |-> row.id, full_name |-> row.full_name]
        ELSE NoUser

\* authenticate: SELECT ... WHERE username=? AND password=?, fetchone
authenticate(username, password) ==
    LET rows == {u \in users : u.username = username /\ u.password = password}
    IN  IF rows # {}
        THEN LET row == CHOOSE u \in rows : \A v \in rows : u.id <= v.id
             IN  [id |-> row.id, full_name |-> row.full_name]
        ELSE NoUser

\* pd.read_csv of a grade file: a frame with the header's columns; a column
\* the header lacks is no column of the frame (its cells are <<>> here)
read_csv(file) ==
    [columns |-> file.header,
     rows |-> [i \in 1..Len(file.lines) |->
                 [semester |-> file.lines[i].semester,
                  course_code |-> file.lines[i].course_code,
                  sks |-> file.lines[i].sks,
                  grade |-> IF "grade" \in file.header
                            THEN <<file.lines[i].grade>> ELSE <<>>]]]

\* DataFrame.to_sql(table, if_exists='append'): the INSERT names the frame's
\* columns; a column the table lacks is an error and nothing is inserted, a
\* table column the frame lacks is NULL in the new rows
ToSqlAppend(table, columns, df) ==
    IF (df.columns \cup {"created_at"}) \subseteq columns
    THEN [ok |-> TRUE, rows |-> table \o df.rows]
    ELSE [ok |-> FALSE, rows |-> table]

\* to_sql with if_exists='replace' where 'append' is meant
InsertGradesReplacing(df) == [ok |-> TRUE, rows |-> df.rows]

\* insert_grades
insert_grades(df) == ToSqlAppend(grades, GradesTableColumns, df)

\* to_sql with if_exists='append' where 'replace' is meant
ToSqlReplaceAppending(table, rows) == table \o rows

\* DataFrame.to_sql(table, if_exists='replace'): the table is dropped and
\* created again from the frame
ToSqlReplace(table, rows) == rows

\* the order of two ORDER BY keys (tuples of integers), column by column
RECURSIVE KeyLess(_, _)
KeyLess(a, b) ==
    IF a = <<>> \/ b = <<>> THEN FALSE
    ELSE IF Head(a) # Head(b) THEN Head(a) < Head(b)
    ELSE KeyLess(Tail(a), Tail(b))

\* ORDER BY: the elements of s in the order of their keys, equal keys in
\* rowid order; an element is a row with its key
RECURSIVE InsertSorted(_, _)
InsertSorted(e, s) ==
    IF s = <<>> THEN <<e>>
    ELSE IF KeyLess(e.key, Head(s).key) THEN <<e>> \o s
    ELSE <<Head(s)>> \o InsertSorted(e, Tail(s))

RECURSIVE SortKeyed(_)
SortKeyed(s) ==
    IF s = <<>> THEN <<>>
    ELSE InsertSorted(s[Len(s)], SortKeyed(SubSeq(s, 1, Len(s) - 1)))

OrderBy(rows, keys) ==
    LET keyed == [i \in 1..Len(rows) |-> [key |-> keys[i], row |-> rows[i]]]
        sorted == SortKeyed(keyed)
    IN  [i \in 1..Len(rows) |-> sorted[i].row]

\* course codes are single letters: their order is the alphabet's
CodeRank(c) == CASE c = "A" -> 1 [] c = "B" -> 2 [] OTHER -> 3

\* get_grades: SELECT * FROM grades ORDER BY semester, course_code
get_grades ==
    OrderBy(grades, [i \in 1..Len(grades) |->
                       <<grades[i].semester, CodeRank(grades[i].course_code)>>])

\* get_attendance: SELECT * FROM attendance ORDER BY course_code
get_attendance ==
    OrderBy(attendance, [i \in 1..Len(attendance) |->
                           <<CodeRank(attendance[i].course_code)>>])

(***************************************************************************)
(* The aggregation the pages run                                           *)
(***************************************************************************)
PyNone == [k |-> "None", n |-> 0, d |-> 1]

\* the metric's text when there is nothing to average
Dash == [k |-> "-", n |-> 0, d |-> 1]

\* frame['weighted'] = frame['grade'] * frame['sks']; a NULL grade gives NaN
Weighted(frame) ==
    [i \in 1..Len(frame) |->
       IF frame[i].grade = <<>> THEN NaN
       ELSE Num(frame[i].grade[1] * frame[i].sks, 1)]

\* one row of a frame added to the groups found so far, which are kept in
\* ascending key order; the sum of weighted skips NaN
AddToGroups(groups, semester, weighted, sks) ==
    LET w == IF weighted.k = "nan" THEN Num(0, 1) ELSE weighted
        at == {i \in 1..Len(groups) : groups[i].semester = semester}
        before == {i \in 1..Len(groups) : groups[i].semester < semester}
        k == Cardinality(before)
    IN  IF at # {}
        THEN [i \in 1..Len(groups) |->
                IF i \in at
                THEN [semester |-> semester,
                      weighted |-> FAdd(groups[i].weighted, w),
                      sks |-> groups[i].sks + sks]
                ELSE groups[i]]
        ELSE SubSeq(groups, 1, k)
               \o <<[semester |-> semester, weighted |-> w, sks |-> sks]>>
               \o SubSeq(groups, k + 1, Len(groups))

\* frame.groupby('semester').agg({'weighted':'sum','sks':'sum'}), the first n
\* rows of the frame taken in
RECURSIVE GroupUpTo(_, _, _)
GroupUpTo(frame, weighted, n) ==
    IF n = 0 THEN <<>>
    ELSE AddToGroups(GroupUpTo(frame, weighted, n - 1),
                     frame[n].semester, weighted[n], frame[n].sks)

\* the aggregation without the groupby: one row per entry
GroupPerEntry(frame) ==
    [i \in 1..Len(frame) |->
       [semester |-> frame[i].semester,
        weighted |-> IF Weighted(frame)[i].k = "nan" THEN Num(0, 1) ELSE Weighted(frame)[i],
        sks |-> frame[i].sks]]

GroupBySemester(frame) == GroupUpTo(frame, Weighted(frame), Len(frame))

\* ip_sem['ip'] = ip_sem['weighted'] / ip_sem['sks']
WithIp(groups) ==
    [i \in 1..Len(groups) |->
       [semester |-> groups[i].semester,
        weighted |-> groups[i].weighted,
        sks |-> groups[i].sks,
        ip |-> FDiv(groups[i].weighted, Num(groups[i].sks, 1))]]

RECURSIVE SumInt(_)
SumInt(s) == IF s = <<>> THEN 0 ELSE Head(s) + SumInt(Tail(s))

\* the plain mean of the term averages: ip_per_sem['ip'].mean()
IpkUnweighted(ip_per_sem) ==
    LET known == SelectSeq([i \in 1..Len(ip_per_sem) |-> ip_per_sem[i].ip],
                           LAMBDA x : x.k # "nan")
    IN  FDiv(SumSkipNa(known), Num(Len(known), 1))

\* ipk = (ip_per_sem['ip'] * ip_per_sem['sks']).sum() / ip_per_sem['sks'].sum()
Ipk(ip_per_sem) ==
    FDiv(SumSkipNa([i \in 1..Len(ip_per_sem) |->
                      FMul(ip_per_sem[i].ip, Num(ip_per_sem[i].sks, 1))]),
         Num(SumInt([i \in 1..Len(ip_per_sem) |-> ip_per_sem[i].sks]), 1))

\* attendance['percent'].max() where mean() is meant
MaxPercent(frame) ==
    Num(CHOOSE m \in {frame[i].percent : i \in 1..Len(frame)} :
            \A i \in 1..Len(frame) : frame[i].percent <= m, 1)

\* attendance['percent'].mean()
MeanPercent(frame) ==
    FDiv(Num(SumInt([i \in 1..Len(frame) |-> frame[i].percent]), 1),
         Num(Len(frame), 1))

\* each value minus the first one
DiffFromFirst(series) ==
    [i \in 1..Len(series) |->
       IF i = 1 THEN NaN ELSE FSub(series[i], series[1])]

\* Series.diff(): NaN first, then each value minus the one in the row before
Diff(series) ==
    [i \in 1..Len(series) |->
       IF i = 1 THEN NaN ELSE FSub(series[i], series[i - 1])]

\* len(frame['course_code'].unique())
CourseCount(frame) == Cardinality({frame[i].course_code : i \in 1..Len(frame)})

SemesterIp(ip_sem) ==
    [i \in 1..Len(ip_sem) |-> [semester |-> ip_sem[i].semester, ip |-> ip_sem[i].ip]]

(***************************************************************************)
(* What a script run renders                                               *)
(***************************************************************************)
LoginScreen(notice) == [view |-> "Login", notice |-> notice]

\* menu == 'Dashboard'
DashboardScreens ==
    LET g == get_grades
        a == get_attendance
        ip_per_sem == WithIp(GroupBySemester(g))
        ipk == Ipk(ip_per_sem)
    IN  { [view |-> "Dashboard",
           n_courses |-> IF g # <<>> THEN CourseCount(g) ELSE 0,
           ip_per_sem |-> IF g # <<>> THEN ip_per_sem ELSE <<>>,
           ipk |-> IF g # <<>> THEN ipk ELSE PyNone,
           metric_ipk |-> avg_ip,
           avg_att |-> avg_att,
           chart |-> IF g # <<>> THEN SemesterIp(ip_per_sem) ELSE <<>>] :
          avg_ip \in (IF g # <<>> THEN Round2(ipk) ELSE {Dash}),
          avg_att \in (IF a # <<>> THEN Round2(MeanPercent(a)) ELSE {Num(0, 1)}) }

\* menu == 'Nilai & IPK'
NilaiScreen ==
    LET g == get_grades
        ip_sem == WithIp(GroupBySemester(g))
        change == Diff([i \in 1..Len(ip_sem) |-> ip_sem[i].ip])
    IN  [view |-> "Nilai & IPK",
         table |-> g,
         ip_sem |-> IF g # <<>> THEN SemesterIp(ip_sem) ELSE <<>>,
         analysis |-> IF g # <<>>
                      THEN [i \in 1..Len(ip_sem) |->
                              [semester |-> ip_sem[i].semester,
                               ip |-> ip_sem[i].ip,
                               change |-> change[i]]]
                      ELSE <<>>,
         download |-> g]

\* menu == 'Kehadiran'
KehadiranScreen ==
    [view |-> "Kehadiran", table |-> get_attendance, download |-> get_attendance]

\* menu == 'Notifikasi & Export'
ExportScreen ==
    [view |-> "Notifikasi & Export",
     grades_all |-> get_grades, attendance_all |-> get_attendance]

InputScreen(notice) == [view |-> "Input Data", notice |-> notice]

AdminScreen(notice) == [view |-> "Admin", notice |-> notice]

PageScreens(m) ==
    CASE m = "Dashboard" -> DashboardScreens
      [] m = "Input Data" -> {InputScreen("none")}
      [] m = "Nilai & IPK" -> {NilaiScreen}
      [] m = "Kehadiran" -> {KehadiranScreen}
      [] m = "Notifikasi & Export" -> {ExportScreen}
      [] OTHER -> {AdminScreen("none")}

\* a reset that deletes from every table
ResetEveryTable == [users |-> {}, grades |-> <<>>, attendance |-> <<>>]

\* the Admin button: DELETE FROM grades, DELETE FROM attendance, commit
ResetTables == [users |-> users, grades |-> <<>>, attendance |-> <<>>]

(***************************************************************************)
(* The script runs                                                         *)
(***************************************************************************)
Init ==
    /\ users = DemoUsers
    /\ grades = <<>>
    /\ attendance = <<>>
    /\ session_user = NoUser
    /\ menu = "none"
    /\ screen = LoginScreen("none")

\* a browser session starts: st.session_state has no 'user' yet
NewSession ==
    /\ session_user' = NoUser
    /\ menu' = "none"
    /\ screen' = LoginScreen("none")
    /\ UNCHANGED store

\* the Login button; the run ends at st.stop() whatever authenticate returned
Login(username, password) ==
    /\ session_user = NoUser
    /\ LET user == authenticate(username, password)
       IN  IF user # NoUser
           THEN /\ session_user' = user
                /\ screen' = LoginScreen("welcome")
           ELSE /\ session_user' = session_user
                /\ screen' = LoginScreen("salah")
    /\ UNCHANGED <<menu, store>>

\* a run with a user in the session: the radio's page is rendered; the first
\* such run shows the radio's first option
SelectMenu(m) ==
    /\ session_user # NoUser
    /\ menu = "none" => m = "Dashboard"
    /\ menu' = m
    /\ screen' \in PageScreens(m)
    /\ UNCHANGED <<session_user, store>>

\* Input Data: a grade CSV is uploaded and 'Simpan ke database' pressed
SaveGrades(file) ==
    /\ session_user # NoUser
    /\ menu = "Input Data"
    /\ Len(grades) + Len(file.lines) <= MaxGradeRows
    /\ LET done == insert_grades(read_csv(file))
       IN  /\ grades' = done.rows
           /\ screen' = InputScreen(IF done.ok THEN "nilai tersimpan" ELSE "exception")
    /\ UNCHANGED <<users, attendance, session_user, menu>>

\* Input Data: an attendance CSV is uploaded and 'Simpan ke database
\* (kehadiran)' pressed
SaveAttendance(file) ==
    /\ session_user # NoUser
    /\ menu = "Input Data"
    /\ attendance' = ToSqlReplace(attendance, file)
    /\ screen' = InputScreen("kehadiran tersimpan")
    /\ UNCHANGED <<users, grades, session_user, menu>>

\* Admin: 'Reset semua data' pressed
ResetData ==
    /\ session_user # NoUser
    /\ menu = "Admin"
    /\ users' = ResetTables.users
    /\ grades' = ResetTables.grades
    /\ attendance' = ResetTables.attendance
    /\ screen' = AdminScreen("Data dihapus.")
    /\ UNCHANGED <<session_user, menu>>

Next ==
    \/ NewSession
    \/ \E u \in Usernames, p \in Passwords : Login(u, p)
    \/ \E m \in Menus : SelectMenu(m)
    \/ \E f \in GradeFiles : SaveGrades(f)
    \/ \E f \in AttendanceFiles : SaveAttendance(f)
    \/ ResetData

Spec == Init /\ [][Next]_vars

TypeOK ==
    /\ Len(grades) <= MaxGradeRows
    /\ menu \in Menus \cup {"none"}
    /\ session_user = NoUser => menu = "none"

(***************************************************************************)
(* The quantities the properties speak of, taken from the stored rows       *)
(***************************************************************************)
Semesters(rows) == {rows[i].semester : i \in 1..Len(rows)}

\* credit_sum of term t: the sum of sks over its entries
CreditSum(rows, t) ==
    SumInt([i \in 1..Len(rows) |-> IF rows[i].semester = t THEN rows[i].sks ELSE 0])

\* weighted_sum of term t: the sum of grade * sks over its graded entries
WeightedSum(rows, t) ==
    SumInt([i \in 1..Len(rows) |->
              IF rows[i].semester = t /\ rows[i].grade # <<>>
              THEN rows[i].grade[1] * rows[i].sks ELSE 0])

TermAverage(rows, t) == FDiv(Num(WeightedSum(rows, t), 1), Num(CreditSum(rows, t), 1))

\* the semester present in rows just before t, in ascending order
PreviousSemester(rows, t) ==
    CHOOSE p \in Semesters(rows) :
        p < t /\ \A q \in Semesters(rows) : q < t => q <= p

RECURSIVE SumTermAverageTimesCredit(_, _)
SumTermAverageTimesCredit(rows, S) ==
    IF S = {} THEN Num(0, 1)
    ELSE LET t == CHOOSE x \in S : TRUE
         IN  FAdd(FMul(TermAverage(rows, t), Num(CreditSum(rows, t), 1)),
                  SumTermAverageTimesCredit(rows, S \ {t}))

RECURSIVE SumCredit(_, _)
SumCredit(rows, S) ==
    IF S = {} THEN 0
    ELSE LET t == CHOOSE x \in S : TRUE
         IN  CreditSum(rows, t) + SumCredit(rows, S \ {t})

\* sum over terms of term_average * credit_sum, over the sum of credit_sum
OverallAverage(rows) ==
    FDiv(SumTermAverageTimesCredit(rows, Semesters(rows)),
         Num(SumCredit(rows, Semesters(rows)), 1))

\* the arithmetic mean of percent over rows
AttendanceMean(rows) ==
    Num(SumInt([i \in 1..Len(rows) |-> rows[i].percent]), Len(rows))

CreditSumsNonzero(rows) == \A t \in Semesters(rows) : CreditSum(rows, t) # 0

\* shown is a multiple of 0.01 at most 0.005 away from exact
RoundedTo2(shown, exact) ==
    /\ IsNum(shown) /\ IsNum(exact)
    /\ 100 % shown.d = 0
    /\ 200 * Abs(shown.n * exact.d - exact.n * shown.d) <= shown.d * exact.d

\* one summary row per semester of rows, in ascending semester order
OnePerSemesterAscending(summary, rows) ==
    /\ Len(summary) = Cardinality(Semesters(rows))
    /\ {summary[i].semester : i \in 1..Len(summary)} = Semesters(rows)
    /\ \A i \in 1..Len(summary), j \in 1..Len(summary) :
         i < j => summary[i].semester < summary[j].semester

OnDashboard == screen.view = "Dashboard"

OnNilai == screen.view = "Nilai & IPK"

\* the entries of the example: (term 1, sks 3, grade 80), (term 1, sks 2,
\* grade 90), (term 2, sks 4, grade 75)
ExampleEntries ==
    { [semester |-> 1, course_code |-> "A", sks |-> 3, grade |-> <<80>>],
      [semester |-> 1, course_code |-> "B", sks |-> 2, grade |-> <<90>>],
      [semester |-> 2, course_code |-> "A", sks |-> 4, grade |-> <<75>>] }

(***************************************************************************)
(* C1: for a non-empty grades table, the per-semester summary of the       *)
(* Nilai & IPK page and of the Dashboard has exactly one row per distinct  *)
(* semester stored, in ascending semester order, whatever the order the    *)
(* entries were inserted in.                                               *)
(***************************************************************************)
C1_OneRowPerSemester ==
    /\ (OnNilai /\ grades # <<>>) =>
         /\ OnePerSemesterAscending(screen.ip_sem, grades)
         /\ OnePerSemesterAscending(screen.analysis, grades)
    /\ (OnDashboard /\ grades # <<>>) =>
         /\ OnePerSemesterAscending(screen.ip_per_sem, grades)
         /\ OnePerSemesterAscending(screen.chart, grades)

\* three entries of two semesters, the later semester inserted first
C1_Witness ==
    /\ OnNilai
    /\ Len(grades) = 3
    /\ Len(screen.ip_sem) = 2
    /\ grades[1].semester > grades[3].semester

(***************************************************************************)
(* C2 as stated: on the Dashboard, for a non-empty grades table whose      *)
(* per-term credit sums are nonzero, the IPK shown equals the sum over     *)
(* terms of term_average * credit_sum divided by the sum of credit_sum.    *)
(***************************************************************************)
C2_ShownIpkIsExact ==
    (OnDashboard /\ grades # <<>> /\ CreditSumsNonzero(grades)) =>
        screen.metric_ipk = OverallAverage(grades)

(***************************************************************************)
(* C2 amended: under the same conditions the ipk the Dashboard computes    *)
(* equals that quotient, each term's ip equals the term's average, and the *)
(* IPK shown is ipk rounded to two decimals.                               *)
(***************************************************************************)
C2_IpkIsCreditWeighted ==
    (OnDashboard /\ grades # <<>> /\ CreditSumsNonzero(grades)) =>
        /\ screen.ipk = OverallAverage(grades)
        /\ \A i \in 1..Len(screen.ip_per_sem) :
             screen.ip_per_sem[i].ip = TermAverage(grades, screen.ip_per_sem[i].semester)
        /\ RoundedTo2(screen.metric_ipk, OverallAverage(grades))

\* the example: term averages 84 and 75, overall 80
C2_Witness ==
    /\ OnDashboard
    /\ Len(grades) = 3
    /\ {grades[i] : i \in 1..3} = ExampleEntries
    /\ screen.chart = <<[semester |-> 1, ip |-> Num(84, 1)],
                        [semester |-> 2, ip |-> Num(75, 1)]>>
    /\ screen.ipk = Num(80, 1)
    /\ screen.metric_ipk = Num(80, 1)

(***************************************************************************)
(* C3: in the analysis of the Nilai & IPK page the change of the earliest  *)
(* semester present is NaN (null), and the change of every later semester  *)
(* t is term_average(t) minus the term_average of the semester present     *)
(* just before t in ascending order.                                       *)
(***************************************************************************)
C3_ChangeFromPreviousSemester ==
    (OnNilai /\ grades # <<>>) =>
        \A i \in 1..Len(screen.analysis) :
            LET row == screen.analysis[i]
                t == row.semester
            IN  /\ t \in Semesters(grades)
                /\ row.ip = TermAverage(grades, t)
                /\ IF \A q \in Semesters(grades) : t <= q
                   THEN row.change = NaN
                   ELSE row.change = FSub(TermAverage(grades, t),
                                          TermAverage(grades, PreviousSemester(grades, t)))

\* three semesters, the last one inserted first, each with a numeric average
C3_Witness ==
    /\ OnNilai
    /\ Len(screen.analysis) = 3
    /\ grades[1].semester = 3
    /\ \A i \in 1..3 : IsNum(screen.analysis[i].ip)
    /\ screen.analysis[3].change # FSub(screen.analysis[3].ip, screen.analysis[1].ip)

(***************************************************************************)
(* C4 as stated: no page shows a term average for a term whose credit sum  *)
(* is zero: the run ends in an error or leaves the term out.               *)
(***************************************************************************)
C4_NoAverageFromZeroCredit ==
    /\ OnNilai =>
         \A i \in 1..Len(screen.ip_sem) :
             CreditSum(grades, screen.ip_sem[i].semester) # 0
    /\ OnDashboard =>
         \A i \in 1..Len(screen.ip_per_sem) :
             CreditSum(grades, screen.ip_per_sem[i].semester) # 0

(***************************************************************************)
(* C5 as stated: the attendance average of the Dashboard is the mean of    *)
(* percent over the stored attendance rows, and 0 when there are none;     *)
(* with no grade rows the IPK metric is "-" and no ipk is computed.        *)
(***************************************************************************)
C5_AttendanceAverageIsMean ==
    OnDashboard =>
        /\ attendance # <<>> => screen.avg_att = AttendanceMean(attendance)
        /\ attendance = <<>> => screen.avg_att = Num(0, 1)
        /\ grades = <<>> => (screen.metric_ipk = Dash /\ screen.ipk = PyNone)

(***************************************************************************)
(* C5 amended: the attendance average of the Dashboard is the mean of      *)
(* percent over the stored attendance rows rounded to two decimals, and 0  *)
(* when there are none; with no grade rows the IPK metric is "-" and no    *)
(* ipk is computed.                                                        *)
(***************************************************************************)
C5_AttendanceAverageIsRoundedMean ==
    OnDashboard =>
        /\ attendance # <<>> =>
             RoundedTo2(screen.avg_att, AttendanceMean(attendance))
        /\ attendance = <<>> => screen.avg_att = Num(0, 1)
        /\ grades = <<>> =>
             (screen.metric_ipk = Dash /\ screen.ipk = PyNone /\ screen.ip_per_sem = <<>>)

\* the example: 100 and 80 give 90
C5_Witness ==
    /\ OnDashboard
    /\ Len(attendance) = 2
    /\ {attendance[i].percent : i \in 1..2} = {100, 80}
    /\ screen.avg_att = Num(90, 1)
    /\ grades = <<>>
    /\ screen.metric_ipk = Dash

(***************************************************************************)
(* C6 as stated: saving a grade file whose header lacks the grade column   *)
(* ends in an error and leaves the grades table as it was.                 *)
(***************************************************************************)
C6_MissingGradeColumnRejected ==
    [][\A f \in GradeFiles :
         ("grade" \notin f.header /\ SaveGrades(f)) =>
             (screen'.notice = "exception" /\ grades' = grades)]_vars

(***************************************************************************)
(* C7: a saved attendance import leaves in the attendance table exactly    *)
(* the rows of the import, whatever it held before, and leaves the grades  *)
(* and users tables unchanged.                                             *)
(***************************************************************************)
C7_AttendanceReplaced ==
    [][\A f \in AttendanceFiles :
         SaveAttendance(f) =>
             (attendance' = f /\ grades' = grades /\ users' = users)]_vars

\* an import of one row is the whole table, with grade rows stored
C7_Witness ==
    /\ screen = InputScreen("kehadiran tersimpan")
    /\ Len(attendance) = 1
    /\ grades # <<>>

(***************************************************************************)
(* C8: from one state to the next the grades table is unchanged, or grows  *)
(* at its end by exactly the lines of one grade import (a line whose       *)
(* semester and course_code are already stored is one more row), or        *)
(* becomes empty through the admin wipe.                                   *)
(***************************************************************************)
C8_GradesAppendOnly ==
    [][\/ grades' = grades
       \/ \E f \in GradeFiles :
            /\ menu = "Input Data"
            /\ Len(grades') = Len(grades) + Len(f.lines)
            /\ SubSeq(grades', 1, Len(grades)) = grades
            /\ \A i \in 1..Len(f.lines) :
                 LET new == grades'[Len(grades) + i]
                 IN  /\ new.semester = f.lines[i].semester
                     /\ new.course_code = f.lines[i].course_code
                     /\ new.sks = f.lines[i].sks
                     /\ new.grade = IF "grade" \in f.header
                                    THEN <<f.lines[i].grade>> ELSE <<>>
       \/ (menu = "Admin" /\ grades' = <<>>)]_vars

\* the same (semester, course_code) stored in two rows
C8_Witness ==
    /\ screen = InputScreen("nilai tersimpan")
    /\ \E i \in 1..Len(grades), j \in 1..Len(grades) :
         /\ i < j
         /\ grades[i].semester = grades[j].semester
         /\ grades[i].course_code = grades[j].course_code

(***************************************************************************)
(* C9: the admin wipe leaves the grades and attendance tables empty, the   *)
(* users table as it was (every credential authenticates after it exactly  *)
(* as before) and the session user unchanged.                              *)
(***************************************************************************)
C9_WipeKeepsUsers ==
    [][ResetData =>
         /\ grades' = <<>>
         /\ attendance' = <<>>
         /\ users' = users
         /\ session_user' = session_user
         /\ \A u \in Usernames, p \in Passwords :
              authenticate(u, p)' = authenticate(u, p)]_vars

C9_Witness ==
    /\ screen = AdminScreen("Data dihapus.")
    /\ grades = <<>>
    /\ attendance = <<>>
    /\ users = DemoUsers
    /\ session_user # NoUser

(***************************************************************************)
(* C10: the session user is set only by a login whose username and         *)
(* password both match one stored user row; while it is unset only the     *)
(* login form is shown, the menu is not there and no step changes the      *)
(* store; a failed login leaves it unset.                                  *)
(***************************************************************************)
C10_LoginGate ==
    [][/\ (session_user = NoUser /\ session_user' # NoUser) =>
            \E row \in users, u \in Usernames, p \in Passwords :
                /\ Login(u, p)
                /\ row.username = u /\ row.password = p
                /\ session_user' = [id |-> row.id, full_name |-> row.full_name]
       /\ \A u \in Usernames, p \in Passwords :
            (Login(u, p) /\ ~\E row \in users : row.username = u /\ row.password = p)
                => (session_user' = NoUser /\ store' = store)
       /\ session_user = NoUser =>
            /\ store' = store
            /\ screen.view = "Login" /\ screen'.view = "Login"
            /\ menu = "none" /\ menu' = "none"
            /\ \A m \in Menus : ~SelectMenu(m)
            /\ \A f \in GradeFiles : ~SaveGrades(f)
            /\ \A f \in AttendanceFiles : ~SaveAttendance(f)
            /\ ~ResetData]_vars

\* a login has set the session user, with rows stored by an earlier session
C10_Witness ==
    /\ screen = LoginScreen("welcome")
    /\ session_user = [id |-> 1, full_name |-> "Mahasiswa Demo"]
    /\ grades # <<>>

====
